---- MODULE Spec2Model ----
(***************************************************************************)
(* Model of the settings library (settings.h / settings.cpp): a registry   *)
(* of settings with enumerated values and the up/down/OK/stop state        *)
(* machine that browses the registry and edits the selected setting.       *)
(*                                                                         *)
(* Indices are 0-based as in the C code; the TLA+ sequence 'settings' is   *)
(* 1-based, so element i of the C array is settings[i + 1] (see At).       *)
(***************************************************************************)
EXTENDS Integers, Sequences, FiniteSets, TLC

\* ---- bounds of the model ------------------------------------------------
\* largest capacity n handed to initSettings( n, tft )
MaxSettings == 2
\* largest nValues handed to createSetting
MaxValues == 2

\* ---- program constants --------------------------------------------------
TFT_HEIGHT == 128
CHAR_HEIGHT == 8
TFT_LINES == TFT_HEIGHT \div CHAR_HEIGHT

\* the NULL name that makes a setting an empty (separator) line
NULL == "NULL"
\* names handed to createSetting
Names == {NULL, "NAME", "IF", "TAPS"}

\* 'can' is not written by createSetting: until scrollValue stores a callback
\* result in it, its value is indeterminate.
Indeterminate == "indeterminate"
CanOf(b) == IF b THEN "true" ELSE "false"
\* variant: settingsOK commits whatever the callback said
ReadCanAlwaysTrue(s) == {TRUE}

\* the values a read of s.can may yield
ReadCan(s) == IF s.can = Indeterminate THEN BOOLEAN ELSE {s.can = "true"}

VARIABLES
  maxSettings,    \* capacity given to initSettings
  settings,       \* the array of Setting's; nSettings is its length
  currentSetting, \* index of the currently selected setting
  topSetting,     \* the topmost setting which is currently displayed
  editing,        \* the currently selected setting is being edited now
  canUseDisplay,  \* the library owns the display
  last,           \* the last call into the library: which function, how often
                  \* it invoked the change callback, the newValue the callback
                  \* saw, what the callback returned, what the call returned
  client,         \* per setting, the value the client program has applied: the
                  \* index createSetting was given, then the newValue of the
                  \* last callback call that returned true
  screen          \* the value column of the TFT_LINES lines of the display

vars == <<maxSettings, settings, currentSetting, topSetting, editing, canUseDisplay, last,
          client, screen>>

nSettings == Len(settings)
At(i) == settings[i + 1]

\* newValue != currentValue for the selected setting (FALSE before any setting exists)
Dirty == currentSetting < nSettings /\ At(currentSetting).newValue # At(currentSetting).currentValue

\* record of a call that did not invoke the callback; 'editing' and 'dirty' are
\* the editing flag and Dirty at the time of the call
Call(op, ret) ==
  [op |-> op, editing |-> editing, dirty |-> Dirty,
   calls |-> 0, arg |-> -1, cbret |-> FALSE, ret |-> ret]
\* record of a call that invoked the callback once: the callback saw newValue = arg
\* and returned cbret
CallCb(op, arg, cbret, ret) ==
  [op |-> op, editing |-> editing, dirty |-> Dirty,
   calls |-> 1, arg |-> arg, cbret |-> cbret, ret |-> ret]

\* a line of the display with nothing in the value column
Blank == [value |-> -1, color |-> "BLACK"]
BlankScreen == [row \in 1..TFT_LINES |-> Blank]

\* state after initSettings( n, tft ) succeeded; the globals keep their initialisers
Init ==
  /\ maxSettings \in 1..MaxSettings
  /\ settings = <<>>
  /\ currentSetting = 0
  /\ topSetting = 0
  /\ editing = FALSE
  /\ canUseDisplay = FALSE
  /\ last = Call("initSettings", TRUE)
  /\ client = <<>>
  /\ screen = BlankScreen

\* the Setting written by createSetting
NewSetting(text, nValues, currentValue, liveUpdate) ==
  [name |-> text, nValues |-> nValues, currentValue |-> currentValue,
   newValue |-> currentValue, liveUpdate |-> liveUpdate, can |-> Indeterminate]

\* the argument lists the callers use: the empty line
\* createSetting( NULL, NULL, 0, 0, false, NULL ), or a named setting with the
\* shortest or the longest list of values and a valid index of the current value
CreateArgs ==
  {<<NULL, 0, 0, FALSE>>} \cup
  {a \in {"NAME"} \X {1, MaxValues} \X (0..(MaxValues - 1)) \X BOOLEAN : a[3] < a[2]}

\* variant: the test for a full array is missing
createSettingNoLimit(a) ==
  /\ settings' = Append(settings, NewSetting(a[1], a[2], a[3], a[4]))
  /\ last' = Call("createSetting", TRUE)
  /\ UNCHANGED <<maxSettings, currentSetting, topSetting, editing, canUseDisplay>>

\* createSetting( text, values, nValues, currentValue, liveUpdate, setFPtr ) with
\* a = <<text, nValues, currentValue, liveUpdate>>; it returns NULL when the array is full
createSettingWith(a) ==
  /\ IF nSettings = maxSettings
       THEN /\ UNCHANGED settings
            /\ last' = Call("createSetting", FALSE)
       ELSE /\ settings' = Append(settings, NewSetting(a[1], a[2], a[3], a[4]))
            /\ last' = Call("createSetting", TRUE)
  /\ UNCHANGED <<maxSettings, currentSetting, topSetting, editing, canUseDisplay>>

createSetting ==
  \E a \in (IF nSettings = maxSettings THEN {<<NULL, 0, 0, FALSE>>} ELSE CreateArgs) :
    createSettingWith(a)

\* displaySettings( first ): the new topSetting and the result
displaySettingsTop(first) == IF canUseDisplay THEN first ELSE topSetting
\* variant: displaySettings reports success also when it may not use the display
displaySettingsResultTrue == TRUE

displaySettingsResult == canUseDisplay

settingsDisplayOn ==
  /\ canUseDisplay' = TRUE
  /\ topSetting' = topSetting
  /\ last' = Call("settingsDisplayOn", TRUE)
  /\ UNCHANGED <<maxSettings, settings, currentSetting, editing>>

\* variant: the edit is taken back before the display is given up
settingsDisplayOffResets ==
  /\ canUseDisplay' = FALSE
  /\ editing' = FALSE
  /\ settings' = IF editing /\ currentSetting < nSettings
                   THEN [settings EXCEPT ![currentSetting + 1].newValue =
                                            settings[currentSetting + 1].currentValue]
                   ELSE settings
  /\ last' = Call("settingsDisplayOff", TRUE)
  /\ UNCHANGED <<maxSettings, currentSetting, topSetting>>

settingsDisplayOff ==
  /\ canUseDisplay' = FALSE
  /\ editing' = FALSE
  /\ last' = Call("settingsDisplayOff", TRUE)
  /\ UNCHANGED <<maxSettings, settings, currentSetting, topSetting>>

\* variant: scrollValue calls the callback whatever liveUpdate says
CallsOnScrollAlways(s) == TRUE

\* variant: scrollValue never calls the callback
CallsOnScrollNever(s) == FALSE

\* scrollValue calls the callback after a change of newValue
CallsOnScroll(s) == s.liveUpdate

\* variant: the upper test is off by one (newValue <= nValues-1)
NewNewValueOffByOne(s, d) ==
  IF d > 0 /\ s.newValue <= s.nValues - 1
    THEN s.newValue + d
    ELSE IF d < 0 /\ s.newValue > 0
           THEN s.newValue + d
           ELSE s.newValue

\* the new value scrollValue selects for setting s
NewNewValue(s, d) ==
  IF d > 0 /\ s.newValue < s.nValues - 1
    THEN s.newValue + d
    ELSE IF d < 0 /\ s.newValue > 0
           THEN s.newValue + d
           ELSE s.newValue

scrollValue(op, d) ==
  LET s == At(currentSetting)
      newNewValue == NewNewValue(s, d)
  IN /\ currentSetting < nSettings
     /\ IF newNewValue # s.newValue
          THEN IF CallsOnScroll(s)
                 THEN \E r \in BOOLEAN :
                        /\ settings' = [settings EXCEPT ![currentSetting + 1].newValue = newNewValue,
                                                        ![currentSetting + 1].can = CanOf(r)]
                        /\ last' = CallCb(op, newNewValue, r, TRUE)
                 ELSE /\ settings' = [settings EXCEPT ![currentSetting + 1].newValue = newNewValue]
                      /\ last' = Call(op, TRUE)
          ELSE /\ UNCHANGED settings
               /\ last' = Call(op, TRUE)
     /\ UNCHANGED <<maxSettings, currentSetting, topSetting, editing, canUseDisplay>>

\* variant: one step only, empty lines are not skipped
NewSettingFromNoSkip(newSetting, d) ==
  IF (d > 0 /\ newSetting < nSettings - 1) \/ (d < 0 /\ newSetting > 0)
    THEN newSetting + d
    ELSE -1

\* variant: empty lines are skipped on the way up only
RECURSIVE NewSettingFromSkipsUpOnly(_, _)
NewSettingFromSkipsUpOnly(newSetting, d) ==
  IF (d > 0 /\ newSetting < nSettings - 1) \/ (d < 0 /\ newSetting > 0)
    THEN IF d > 0 /\ At(newSetting + d).name = NULL
           THEN NewSettingFromSkipsUpOnly(newSetting + d, d)
           ELSE newSetting + d
    ELSE -1

\* the do-while of scrollSetting: the setting it ends on, or -1 when it returns false
RECURSIVE NewSettingFrom(_, _)
NewSettingFrom(newSetting, d) ==
  IF (d > 0 /\ newSetting < nSettings - 1) \/ (d < 0 /\ newSetting > 0)
    THEN IF At(newSetting + d).name = NULL
           THEN NewSettingFrom(newSetting + d, d)
           ELSE newSetting + d
    ELSE -1

\* variant: the do-while wraps around at the ends of the array and stops when
\* it is back at the selected setting
RECURSIVE ScanMovesWraps(_, _)
ScanMovesWraps(newSetting, d) ==
  IF nSettings = 0
    THEN 0
    ELSE LET next == (newSetting + d + nSettings) % nSettings
         IN 1 + (IF At(next).name = NULL /\ next # currentSetting
                   THEN ScanMovesWraps(next, d)
                   ELSE 0)

\* the do-while of scrollSetting: how often it executes newSetting += d
RECURSIVE ScanMoves(_, _)
ScanMoves(newSetting, d) ==
  IF (d > 0 /\ newSetting < nSettings - 1) \/ (d < 0 /\ newSetting > 0)
    THEN 1 + (IF At(newSetting + d).name = NULL
                THEN ScanMoves(newSetting + d, d)
                ELSE 0)
    ELSE 0

scrollSetting(op, d) ==
  LET newSetting == NewSettingFrom(currentSetting, d)
  IN /\ IF newSetting = -1
          THEN /\ UNCHANGED <<currentSetting, topSetting>>
               /\ last' = Call(op, FALSE)
          ELSE /\ currentSetting' = newSetting
               /\ IF newSetting < topSetting
                    THEN /\ topSetting' = displaySettingsTop(newSetting)
                         /\ last' = Call(op, displaySettingsResult)
                    ELSE IF newSetting >= topSetting + TFT_LINES
                           THEN /\ topSetting' = displaySettingsTop(newSetting - TFT_LINES + 1)
                                /\ last' = Call(op, displaySettingsResult)
                           ELSE /\ UNCHANGED topSetting
                                /\ last' = Call(op, TRUE)
     /\ UNCHANGED <<maxSettings, settings, editing, canUseDisplay>>

settingsUp ==
  IF editing THEN scrollValue("settingsUp", 1) ELSE scrollSetting("settingsUp", 1)

settingsDown ==
  IF editing THEN scrollValue("settingsDown", -1) ELSE scrollSetting("settingsDown", -1)

\* variant: a value that was not accepted stays in newValue
CommitKeepsRejected(s, accepted) ==
  IF accepted
    THEN [s EXCEPT !.currentValue = s.newValue]
    ELSE s

\* settingsOK on a changed value: keep it when it was accepted, else take it back
Commit(s, accepted) ==
  IF accepted
    THEN [s EXCEPT !.currentValue = s.newValue]
    ELSE [s EXCEPT !.newValue = s.currentValue]

\* settingsOK reads settings[currentSetting]: the caller has created a setting.
\* On an empty line highlightValue reads values[0] of a NULL 'values'; the
\* flags and indices are written before that read and are modelled as written.
settingsOK ==
  LET s == At(currentSetting)
      i == currentSetting + 1
  IN /\ currentSetting < nSettings
     /\ IF editing /\ s.newValue # s.currentValue
          THEN IF s.liveUpdate
                 THEN \E can \in ReadCan(s) :
                        /\ settings' = [settings EXCEPT ![i] = Commit(s, can)]
                        /\ last' = Call("settingsOK", TRUE)
                 ELSE \E r \in BOOLEAN :
                        /\ settings' = [settings EXCEPT ![i] = Commit(s, r)]
                        /\ last' = CallCb("settingsOK", s.newValue, r, TRUE)
          ELSE /\ UNCHANGED settings
               /\ last' = Call("settingsOK", TRUE)
     /\ editing' = ~editing
     /\ UNCHANGED <<maxSettings, currentSetting, topSetting, canUseDisplay>>

\* variant: the client is told also when it had not accepted the value
ResetLiveIgnoresCan(s, can) == s.liveUpdate /\ (s.newValue # s.currentValue)

\* resetNewValue: must the client be told that the value is reset?
ResetLive(s, can) == s.liveUpdate /\ can /\ (s.newValue # s.currentValue)

\* variant: newValue is not reset
ResetNothing(s) == s

\* resetNewValue: the setting with its value reset
Reset(s) == [s EXCEPT !.newValue = s.currentValue]

resetNewValue(op) ==
  LET s == At(currentSetting)
      i == currentSetting + 1
  IN /\ currentSetting < nSettings
     /\ \E can \in (IF s.liveUpdate THEN ReadCan(s) ELSE {FALSE}) :
          LET resetLive == ResetLive(s, can)
          IN /\ settings' = [settings EXCEPT ![i] = Reset(s)]
             /\ IF resetLive
                  THEN \E r \in BOOLEAN : last' = CallCb(op, s.currentValue, r, TRUE)
                  ELSE last' = Call(op, TRUE)
     /\ UNCHANGED <<maxSettings, currentSetting, topSetting, editing, canUseDisplay>>

settingsStop ==
  IF editing
    THEN resetNewValue("settingsStop")
    ELSE /\ last' = Call("settingsStop", TRUE)
         /\ UNCHANGED <<maxSettings, settings, currentSetting, topSetting, editing, canUseDisplay>>

\* ---- the client program and the display ------------------------------------
\* the client's values after a call: createSetting adds the given index, a
\* callback call that returns true applies the newValue it was called with
ClientAfter ==
  IF last'.op = "createSetting"
    THEN IF last'.ret
           THEN Append(client, settings'[Len(settings')].currentValue)
           ELSE client
    ELSE IF last'.calls = 1 /\ last'.cbret
           THEN [client EXCEPT ![currentSetting + 1] = last'.arg]
           ELSE client

\* displaySettings( first ): the screen is cleared and the settings from
\* 'first' on are drawn in WHITE, one per line
DisplaySettingsScreen(all, first) ==
  [row \in 1..TFT_LINES |->
     LET i == first + row
     IN IF i <= Len(all) /\ all[i].name # NULL
          THEN [value |-> all[i].newValue, color |-> "WHITE"]
          ELSE Blank]

\* the colour highlightValue chooses
HighlightColor(s, isEditing) ==
  IF isEditing
    THEN IF s.currentValue = s.newValue THEN "BLUE" ELSE "RED"
    ELSE "WHITE"

\* highlightValue(): the value of the selected setting is drawn again on its
\* line (printAt draws nothing unless canUseDisplay; a line beyond the display
\* is not visible; an empty line has no value to draw)
HighlightValueScreen(scr, all, selected, top, isEditing) ==
  LET row == selected - top
  IN IF /\ canUseDisplay
        /\ selected < Len(all) /\ all[selected + 1].name # NULL
        /\ 0 <= row /\ row < TFT_LINES
       THEN [scr EXCEPT ![row + 1] =
               [value |-> all[selected + 1].newValue,
                color |-> HighlightColor(all[selected + 1], isEditing)]]
       ELSE scr

\* the screen after a call
ScreenAfter ==
  IF last'.op = "settingsDisplayOn"
    THEN DisplaySettingsScreen(settings', topSetting')
  ELSE IF last'.op = "settingsOK"
    THEN HighlightValueScreen(screen, settings', currentSetting', topSetting', editing')
  ELSE IF last'.op \in {"settingsUp", "settingsDown"}
    THEN IF editing
           THEN IF settings' # settings
                  THEN HighlightValueScreen(screen, settings', currentSetting', topSetting', editing')
                  ELSE screen
           ELSE IF /\ canUseDisplay
                   /\ currentSetting' # currentSetting
                   /\ (currentSetting' < topSetting \/ currentSetting' >= topSetting + TFT_LINES)
                  THEN DisplaySettingsScreen(settings', topSetting')
                  ELSE screen
  ELSE screen

\* the client and the display are not looked at
Unwatched == UNCHANGED <<client, screen>>
\* the client and the display follow the call
Watched == client' = ClientAfter /\ screen' = ScreenAfter

Next ==
  \/ createSetting /\ Unwatched
  \/ settingsDisplayOn /\ Unwatched
  \/ settingsDisplayOff /\ Unwatched
  \/ settingsUp /\ Unwatched
  \/ settingsDown /\ Unwatched
  \/ settingsOK /\ Unwatched
  \/ settingsStop /\ Unwatched

NextWatched ==
  \/ createSetting /\ Watched
  \/ settingsDisplayOn /\ Watched
  \/ settingsDisplayOff /\ Watched
  \/ settingsUp /\ Watched
  \/ settingsDown /\ Watched
  \/ settingsOK /\ Watched
  \/ settingsStop /\ Watched

Spec == Init /\ [][Next]_vars

\* the same library with the client program and the display looked at
SpecWatched == Init /\ [][NextWatched]_vars

\* ---- a full array longer than the display ----------------------------------
\* settings beyond the TFT_LINES lines of the display
NavExtra == 2
\* longest run of empty lines in the array
MaxRun == 2
NavSettings == TFT_LINES + NavExtra

\* NavSettings settings, those at p .. p+r-1 empty lines, the others named
NavLayout(p, r) ==
  [i \in 1..NavSettings |->
     IF p <= i - 1 /\ i - 1 < p + r
       THEN NewSetting(NULL, 0, 0, FALSE)
       ELSE NewSetting("NAME", 1, 0, FALSE)]

NavLayouts ==
  {NavLayout(p, r) : p \in 0..(NavSettings - 1), r \in 0..MaxRun} \cup
  {NavLayout(0, NavSettings)}

\* state after initSettings( NavSettings, tft ) and NavSettings calls of createSetting
InitNav ==
  /\ maxSettings = NavSettings
  /\ settings \in NavLayouts
  /\ currentSetting = 0
  /\ topSetting = 0
  /\ editing = FALSE
  /\ canUseDisplay = FALSE
  /\ last = Call("createSetting", TRUE)
  /\ client = [i \in 1..Len(settings) |-> settings[i].currentValue]
  /\ screen = BlankScreen

SpecNav == InitNav /\ [][Next]_vars

\* ---- the array IF, empty line, TAPS ------------------------------------------
\* state after initSettings( 3, tft ), createSetting( "IF", {"0","4500","5000"}, 3, 1, .. ),
\* createSetting( NULL, NULL, 0, 0, false, NULL ) and
\* createSetting( "TAPS", {"50","100"}, 2, 0, true, .. ): IF is selected
InitScenario ==
  /\ maxSettings = 3
  /\ \E liveUpdate \in BOOLEAN :
       settings = <<NewSetting("IF", 3, 1, liveUpdate),
                    NewSetting(NULL, 0, 0, FALSE),
                    NewSetting("TAPS", 2, 0, TRUE)>>
  /\ currentSetting = 0
  /\ topSetting = 0
  /\ editing = FALSE
  /\ canUseDisplay = FALSE
  /\ last = Call("createSetting", TRUE)
  /\ client = [i \in 1..Len(settings) |-> settings[i].currentValue]
  /\ screen = BlankScreen

SpecScenario == InitScenario /\ [][Next]_vars

\* ---- the selected setting before and after a step -------------------------
Sel == At(currentSetting)
SelAfter == settings'[currentSetting + 1]
Scrolls == {"settingsUp", "settingsDown"}
OthersUnchanged ==
  /\ Len(settings') = Len(settings)
  /\ \A j \in 1..nSettings : j # currentSetting + 1 => settings'[j] = settings[j]

\* C1: whenever the library is not editing, every setting has
\* newValue = currentValue.
C1_NotEditingPendingIsCurrent ==
  ~editing => \A j \in 1..nSettings : settings[j].newValue = settings[j].currentValue

\* C2: when a settingsStop that was called while editing a named setting
\* returns, the editing flag is false (so that the next settingsUp /
\* settingsDown scrolls the selection, not the value).
C2_StopEndsEditing ==
  (last.op = "settingsStop" /\ last.editing /\ Sel.name # NULL) => ~editing

\* C3: settingsOK while editing a setting with liveUpdate = false: with
\* newValue = currentValue nothing changes and the callback is not called; with
\* newValue != currentValue the callback is called, currentValue becomes the old
\* newValue when it returns true and stays when it returns false; in every case
\* newValue = currentValue afterwards and editing is false.
C3_AcceptNoLiveUpdate ==
  [][(editing /\ last'.op = "settingsOK" /\ ~Sel.liveUpdate) =>
       /\ Sel.newValue = Sel.currentValue => (settings' = settings /\ last'.calls = 0)
       /\ Sel.newValue # Sel.currentValue =>
            /\ last'.calls = 1
            /\ last'.cbret => SelAfter.currentValue = Sel.newValue
            /\ ~last'.cbret => SelAfter.currentValue = Sel.currentValue
       /\ SelAfter.newValue = SelAfter.currentValue
       /\ ~editing']_vars

\* C3 witness: an edit of a setting without liveUpdate was ended by settingsOK
\* and the callback refused the changed value, which was taken back.
C3_Witness ==
  /\ last.op = "settingsOK" /\ last.editing /\ last.dirty
  /\ ~Sel.liveUpdate /\ last.calls = 1 /\ ~last.cbret
  /\ Sel.newValue = Sel.currentValue /\ ~editing

\* C4: for a setting with liveUpdate = false, settingsUp / settingsDown while
\* editing never call the callback; the settingsOK that ends the edit calls it
\* exactly once when newValue != currentValue and not at all otherwise.
C4_NoLiveUpdateCallbackOnlyOnAccept ==
  [][(editing /\ ~Sel.liveUpdate) =>
       /\ last'.op \in Scrolls => last'.calls = 0
       /\ last'.op = "settingsOK" =>
            last'.calls = (IF Sel.newValue # Sel.currentValue THEN 1 ELSE 0)]_vars

\* C4 witness: the value of a setting without liveUpdate was scrolled away from
\* the current value with no callback call.
C4_Witness ==
  /\ last.op \in Scrolls /\ last.editing /\ ~last.dirty /\ editing
  /\ ~Sel.liveUpdate /\ last.calls = 0
  /\ Sel.newValue # Sel.currentValue

\* C5: settingsOK while editing a setting with liveUpdate = true never calls the
\* callback; it makes currentValue the old newValue when 'can' is true, and
\* otherwise keeps currentValue and takes newValue back to it.
C5_AcceptLiveUpdate ==
  [][(editing /\ last'.op = "settingsOK" /\ Sel.liveUpdate) =>
       /\ last'.calls = 0
       /\ Sel.can = "true" =>
            (SelAfter.currentValue = Sel.newValue /\ SelAfter.newValue = Sel.newValue)
       /\ Sel.can # "true" =>
            (SelAfter.currentValue = Sel.currentValue /\ SelAfter.newValue = Sel.currentValue)
       /\ OthersUnchanged]_vars

\* C5 witness: settingsOK ended a liveUpdate edit whose changed value the
\* callback had refused; the value was taken back without a callback call.
C5_Witness ==
  /\ last.op = "settingsOK" /\ last.editing /\ last.dirty
  /\ Sel.liveUpdate /\ Sel.can = "false" /\ last.calls = 0
  /\ Sel.newValue = Sel.currentValue

\* C6: for a setting with liveUpdate = true, a settingsUp / settingsDown while
\* editing that has room to move newValue moves it by one, calls the callback
\* exactly once with the new newValue, stores the result in 'can', keeps the
\* new newValue also when the callback returned false, and leaves currentValue.
C6_LiveUpdateScrollCallsBack ==
  [][(editing /\ last'.op \in Scrolls /\ Sel.liveUpdate) =>
       LET d == IF last'.op = "settingsUp" THEN 1 ELSE -1
           room == IF d = 1 THEN Sel.newValue < Sel.nValues - 1 ELSE Sel.newValue > 0
       IN room =>
            /\ SelAfter.newValue = Sel.newValue + d
            /\ last'.calls = 1
            /\ last'.arg = SelAfter.newValue
            /\ SelAfter.can = CanOf(last'.cbret)
            /\ SelAfter.currentValue = Sel.currentValue]_vars

\* C6 witness: a scroll step of a liveUpdate edit was refused by the callback
\* and newValue still holds the refused value.
C6_Witness ==
  /\ last.op \in Scrolls /\ last.editing /\ editing
  /\ Sel.liveUpdate /\ last.calls = 1 /\ ~last.cbret
  /\ last.arg = Sel.newValue /\ Sel.newValue # Sel.currentValue /\ Sel.can = "false"

\* C7: settingsStop while editing leaves newValue = currentValue for the
\* selected setting, with or without liveUpdate, and changes currentValue of no
\* setting; settingsStop while not editing changes nothing and calls no callback.
C7_StopRestoresPending ==
  [][last'.op = "settingsStop" =>
       IF editing
         THEN /\ SelAfter.newValue = SelAfter.currentValue
              /\ Len(settings') = Len(settings)
              /\ \A j \in 1..nSettings : settings'[j].currentValue = settings[j].currentValue
         ELSE /\ UNCHANGED <<maxSettings, settings, currentSetting, topSetting, editing, canUseDisplay>>
              /\ last'.calls = 0]_vars

\* C7 witness: settingsStop was called during an edit with a changed value of
\* a setting without liveUpdate, and the value is back at currentValue.
C7_Witness ==
  /\ last.op = "settingsStop" /\ last.editing /\ last.dirty
  /\ ~Sel.liveUpdate /\ Sel.newValue = Sel.currentValue

\* C8: settingsStop while editing calls the callback exactly once, with
\* newValue already back at currentValue, if and only if the setting has
\* liveUpdate, newValue differed from currentValue and 'can' was true; otherwise
\* it calls no callback. The result of that call is not stored in 'can'.
C8_StopNotifiesAcceptedLiveChange ==
  [][(editing /\ last'.op = "settingsStop") =>
       /\ last'.calls =
            (IF Sel.liveUpdate /\ Sel.newValue # Sel.currentValue /\ Sel.can = "true"
               THEN 1 ELSE 0)
       /\ last'.calls = 1 => last'.arg = Sel.currentValue
       /\ SelAfter.can = Sel.can]_vars

\* C8 witness: settingsStop called the callback for an accepted live change,
\* the callback returned false, and 'can' is still true.
C8_Witness ==
  /\ last.op = "settingsStop" /\ last.editing /\ last.dirty
  /\ last.calls = 1 /\ ~last.cbret /\ Sel.can = "true"
  /\ last.arg = Sel.newValue

\* C9: every named setting has 0 <= currentValue < nValues and
\* 0 <= newValue < nValues; settingsUp / settingsDown while editing moves
\* newValue by exactly one when that stays in range, and at the last / first
\* value changes nothing and calls no callback.
C9_InRange ==
  \A j \in 1..nSettings :
    settings[j].name # NULL =>
      /\ 0 <= settings[j].currentValue /\ settings[j].currentValue < settings[j].nValues
      /\ 0 <= settings[j].newValue /\ settings[j].newValue < settings[j].nValues
C9_ValuesStayInRange ==
  /\ []C9_InRange
  /\ [][(editing /\ last'.op \in Scrolls /\ Sel.name # NULL) =>
          LET d == IF last'.op = "settingsUp" THEN 1 ELSE -1
              room == IF d = 1 THEN Sel.newValue < Sel.nValues - 1 ELSE Sel.newValue > 0
          IN /\ room => (SelAfter.newValue = Sel.newValue + d /\ OthersUnchanged)
             /\ ~room => (settings' = settings /\ last'.calls = 0)]_vars

\* C9 witness: settingsUp at the last value of a liveUpdate setting with more
\* than one value did nothing (no callback call).
C9_Witness ==
  /\ last.op = "settingsUp" /\ last.editing /\ editing
  /\ Sel.liveUpdate /\ Sel.nValues > 1 /\ Sel.newValue = Sel.nValues - 1
  /\ last.calls = 0

\* C10: whenever a named setting exists, currentSetting is the index of a
\* named setting.
C10_SelectionIsNamed ==
  (\E j \in 1..nSettings : settings[j].name # NULL) =>
    (currentSetting < nSettings /\ At(currentSetting).name # NULL)

\* C13: createSetting succeeds exactly while fewer than maxSettings settings
\* exist: a successful call appends one setting with newValue = currentValue =
\* the given index and touches no other setting; with nSettings = maxSettings
\* the call returns NULL and changes nothing; nSettings <= maxSettings always.
C13_CapacityRespected ==
  /\ [](nSettings <= maxSettings)
  /\ [][last'.op = "createSetting" =>
          IF nSettings < maxSettings
            THEN /\ last'.ret
                 /\ \E a \in CreateArgs :
                      settings' = Append(settings,
                        [name |-> a[1], nValues |-> a[2], currentValue |-> a[3],
                         newValue |-> a[3], liveUpdate |-> a[4],
                         can |-> settings'[Len(settings')].can])
            ELSE /\ ~last'.ret
                 /\ settings' = settings]_vars

\* C13 witness: createSetting returned NULL on a full array of two or more settings.
C13_Witness ==
  /\ last.op = "createSetting" /\ ~last.ret
  /\ nSettings = maxSettings /\ maxSettings >= 2

\* C14: settingsDisplayOff clears canUseDisplay and editing, calls no callback
\* and leaves every setting (currentValue, newValue, can), currentSetting and
\* topSetting as they were, whatever the state it is called in.
C14_DisplayOffOnlySuspends ==
  [][last'.op = "settingsDisplayOff" =>
       /\ ~canUseDisplay'
       /\ ~editing'
       /\ last'.calls = 0
       /\ UNCHANGED <<maxSettings, settings, currentSetting, topSetting>>]_vars

\* C14 witness: settingsDisplayOff was called during an edit with a changed
\* value, and the changed value is still in newValue.
C14_Witness ==
  /\ last.op = "settingsDisplayOff" /\ last.editing /\ last.dirty
  /\ ~editing /\ ~canUseDisplay /\ Dirty

\* the settings between the selected one and the end of the array in direction d
Room(d) ==
  IF nSettings = 0 THEN 0
  ELSE IF d > 0 THEN nSettings - 1 - currentSetting ELSE currentSetting

\* C20: in every state the separator-skipping loop of scrollSetting, started
\* in either direction, ends after at most as many moves as there are settings
\* left in that direction, hence after at most nSettings moves; also with only
\* separators in that direction or in the whole array, and with no setting.
C20_ScanEnds ==
  \A d \in {1, -1} :
    /\ ScanMoves(currentSetting, d) <= Room(d)
    /\ Room(d) <= nSettings
    /\ LET newSetting == NewSettingFrom(currentSetting, d)
       IN newSetting # -1 => newSetting = currentSetting + d * ScanMoves(currentSetting, d)

\* C20 witness: settingsUp ran the loop over an array of two or more
\* separators only and returned false.
C20_Witness ==
  /\ nSettings >= 2
  /\ \A j \in 1..nSettings : settings[j].name = NULL
  /\ last.op = "settingsUp" /\ ~last.editing /\ ~last.ret
  /\ ScanMoves(currentSetting, 1) = nSettings - 1

\* ---- browsing ---------------------------------------------------------------
Events == Scrolls \cup {"settingsOK", "settingsStop"}
Direction(op) == IF op = "settingsUp" THEN 1 ELSE -1
\* the named settings beyond the selected one in direction d
Targets(d) ==
  {j \in 0..(nSettings - 1) :
     At(j).name # NULL /\ (IF d > 0 THEN j > currentSetting ELSE j < currentSetting)}
Nearest(d) ==
  CHOOSE j \in Targets(d) : \A k \in Targets(d) : IF d > 0 THEN j <= k ELSE j >= k

\* C11: settingsUp (d = 1) / settingsDown (d = -1) while not editing selects
\* the nearest named setting in direction d, whatever run of empty lines lies
\* in between, without wrapping around; with no named setting in that direction
\* currentSetting and topSetting stay. The call changes no currentValue or
\* newValue and calls no callback.
C11_BrowseToNearestNamed ==
  [][(~editing /\ last'.op \in Scrolls) =>
       LET d == Direction(last'.op)
       IN /\ IF Targets(d) = {}
               THEN UNCHANGED <<currentSetting, topSetting>>
               ELSE currentSetting' = Nearest(d)
          /\ settings' = settings
          /\ last'.calls = 0]_vars

\* C11 witness: settingsUp moved the selection over a run of two empty lines.
C11_Witness ==
  /\ last.op = "settingsUp" /\ ~last.editing /\ last.ret
  /\ currentSetting >= 3 /\ Sel.name # NULL
  /\ At(currentSetting - 1).name = NULL /\ At(currentSetting - 2).name = NULL
  /\ At(currentSetting - 3).name # NULL

\* C15 as claimed: settingsUp, settingsDown, settingsOK and settingsStop
\* return true (no drawing operation of the library reports a failure).
C15_EventsReturnTrue == last.op \in Events => last.ret

\* C15 as amended: settingsOK and settingsStop return true, and so do
\* settingsUp / settingsDown while editing; while not editing they return
\* false when the selection cannot move, and false when the selection moved
\* out of the displayed lines while the library may not use the display;
\* otherwise they return true.
C15_ReturnValues ==
  [][last'.op \in Events =>
       last'.ret =
         (IF editing \/ last'.op \notin Scrolls
            THEN TRUE
            ELSE /\ Targets(Direction(last'.op)) # {}
                 /\ \/ canUseDisplay
                    \/ /\ topSetting <= currentSetting'
                       /\ currentSetting' < topSetting + TFT_LINES)]_vars

\* C15 witness: settingsUp moved the selection below the displayed lines while
\* the display was not the library's, and returned false.
C15_Witness ==
  /\ last.op = "settingsUp" /\ ~last.editing /\ ~last.ret
  /\ ~canUseDisplay
  /\ currentSetting = topSetting + TFT_LINES
  /\ Sel.name # NULL /\ At(currentSetting - 1).name # NULL

\* C16: the selected setting is one of the displayed lines,
\* topSetting <= currentSetting < topSetting + TFT_LINES, in every state.
C16_SelectionVisible ==
  topSetting <= currentSetting /\ currentSetting < topSetting + TFT_LINES

\* the selection after k settingsUp (d = 1) or settingsDown (d = -1) calls from
\* setting i while not editing; -1 when one of them could not move
RECURSIVE AfterMoves(_, _, _)
AfterMoves(i, d, k) ==
  IF k = 0 THEN i
  ELSE LET j == NewSettingFrom(i, d)
       IN IF j = -1 THEN -1 ELSE AfterMoves(j, d, k - 1)

\* C17: from every state that is not editing, k settingsUp followed by k
\* settingsDown, or k settingsDown followed by k settingsUp, end on the
\* setting they started on, for every k, unless one of the calls could not move.
C17_UpDownRoundTrip ==
  ~editing =>
    \A d \in {1, -1} : \A k \in 1..nSettings :
      LET there == AfterMoves(currentSetting, d, k)
          back == IF there = -1 THEN -1 ELSE AfterMoves(there, -d, k)
      IN back # -1 => back = currentSetting

\* C17 witness: a state, reached by settingsDown, from which two settingsUp
\* (the first over an empty line) and two settingsDown come back.
C17_Witness ==
  /\ ~editing /\ last.op = "settingsDown" /\ last.ret
  /\ currentSetting + 1 < nSettings /\ At(currentSetting + 1).name = NULL
  /\ AfterMoves(currentSetting, 1, 2) # -1
  /\ AfterMoves(AfterMoves(currentSetting, 1, 2), -1, 2) = currentSetting

\* ---- the scenario on IF, empty line, TAPS -----------------------------------
\* IF is untouched at index 1, setting 'selected' is selected, and TAPS has
\* newValue = new and currentValue = current
Stage(selected, isEditing, new, current) ==
  /\ nSettings = 3
  /\ settings[1].name = "IF" /\ settings[1].currentValue = 1 /\ settings[1].newValue = 1
  /\ settings[2].name = NULL
  /\ settings[3].name = "TAPS" /\ settings[3].liveUpdate
  /\ settings[3].newValue = new /\ settings[3].currentValue = current
  /\ currentSetting = selected
  /\ editing = isEditing

\* one step of the scenario, with 'first' the call that is to select TAPS;
\* the callback returns true
ScenarioStep(first) ==
  /\ (Stage(0, FALSE, 0, 0) /\ last'.op = first) => Stage(2, FALSE, 0, 0)'
  /\ (Stage(2, FALSE, 0, 0) /\ last'.op = "settingsOK") => Stage(2, TRUE, 0, 0)'
  /\ (Stage(2, TRUE, 0, 0) /\ last'.op = "settingsUp" /\ last'.cbret) =>
       (Stage(2, TRUE, 1, 0)' /\ settings'[3].can = "true")
  /\ (Stage(2, TRUE, 1, 0) /\ settings[3].can = "true" /\ last'.op = "settingsOK") =>
       Stage(2, FALSE, 1, 1)'
  /\ (Stage(2, FALSE, 1, 1) /\ last'.op = "settingsOK") => Stage(2, TRUE, 1, 1)'
  /\ (Stage(2, TRUE, 1, 1) /\ last'.op = "settingsUp") =>
       (Stage(2, TRUE, 1, 1)' /\ last'.calls = 0)
  /\ (Stage(2, TRUE, 1, 1) /\ last'.op = "settingsStop") =>
       (settings'[3].currentValue = 1 /\ settings'[3].newValue = 1)

\* C12 as claimed: with IF selected, settingsDown selects TAPS over the empty
\* line; settingsOK starts the edit; settingsUp moves TAPS.newValue to 1;
\* settingsOK commits TAPS.currentValue = 1; a following settingsOK,
\* settingsUp (nothing to move) and settingsStop leave TAPS.currentValue = 1.
C12_ScenarioWithDown == [][ScenarioStep("settingsDown")]_vars

\* C12 as amended: the same scenario with settingsUp as the call that selects
\* TAPS from IF.
C12_ScenarioWithUp == [][ScenarioStep("settingsUp")]_vars

\* C12 witness: the end of the scenario: settingsStop returned in the second
\* edit of TAPS, whose committed value is index 1.
C12_Witness ==
  /\ last.op = "settingsStop" /\ last.editing /\ ~last.dirty
  /\ currentSetting = 2 /\ settings[3].can = "true"
  /\ settings[3].currentValue = 1 /\ settings[3].newValue = 1
  /\ settings[1].currentValue = 1 /\ settings[1].newValue = 1

\* ---- C18 -------------------------------------------------------------------
\* C18: for a named liveUpdate setting, after an Accept or a Cancel that was
\* received during an edit and did not call the callback, the value the client
\* program has applied is the setting's currentValue
C18_ClientHoldsCurrentValue ==
  (/\ last.op \in {"settingsOK", "settingsStop"}
   /\ last.editing
   /\ last.calls = 0
   /\ currentSetting < nSettings
   /\ Sel.name # NULL
   /\ Sel.liveUpdate)
  => client[currentSetting + 1] = Sel.currentValue

\* ---- C19 -------------------------------------------------------------------
\* C19: while the display is active, after an event received during an edit
\* with a changed value, the value cell of the selected named setting shows
\* the value at newValue in the colour of the state after the event (WHITE
\* when not editing, BLUE when editing unchanged, RED when editing changed)
C19_ValueCellShowsState ==
  (/\ canUseDisplay
   /\ last.op \in Events
   /\ last.editing
   /\ last.dirty
   /\ currentSetting < nSettings
   /\ Sel.name # NULL
   /\ topSetting <= currentSetting
   /\ currentSetting < topSetting + TFT_LINES)
  => screen[currentSetting - topSetting + 1] =
       [value |-> Sel.newValue, color |-> HighlightColor(Sel, editing)]

\* ---- C21 -------------------------------------------------------------------
\* in this step the 'can' of setting j was written with the result of a
\* callback call made with the newValue the setting now has
CanIsFresh(j) ==
  /\ j = currentSetting + 1
  /\ last'.calls = 1
  /\ last'.arg = settings'[j].newValue
  /\ settings'[j].can = CanOf(last'.cbret)

\* this step left setting j as it was and made no callback call for it
CanIsKept(j) ==
  /\ j <= nSettings
  /\ settings'[j] = settings[j]
  /\ (j = currentSetting + 1 => last'.calls = 0)

\* a liveUpdate setting with newValue # currentValue after a step either was
\* so before and was not touched, or its 'can' was written in this step
CanFollowsNewValue ==
  \A j \in 1..Len(settings') :
    (settings'[j].liveUpdate /\ settings'[j].newValue # settings'[j].currentValue)
      => (CanIsKept(j) \/ CanIsFresh(j))

\* Accept and Cancel during an edit of a liveUpdate setting: with a changed
\* value 'can' is set and alone decides the outcome; with an unchanged value
\* nothing happens, whatever 'can' holds
CanDecidesOutcome ==
  (/\ last'.op \in {"settingsOK", "settingsStop"}
   /\ editing
   /\ currentSetting < nSettings
   /\ Sel.liveUpdate)
  => IF Sel.newValue # Sel.currentValue
       THEN /\ Sel.can # Indeterminate
            /\ OthersUnchanged
            /\ IF last'.op = "settingsOK"
                 THEN SelAfter = Commit(Sel, Sel.can = "true") /\ last'.calls = 0
                 ELSE /\ SelAfter = Reset(Sel)
                      /\ last'.calls = (IF Sel.can = "true" THEN 1 ELSE 0)
       ELSE settings' = settings /\ last'.calls = 0

\* C21: a liveUpdate setting with newValue # currentValue always has a 'can'
\* that was written by a callback call made with its present newValue, no call
\* for it having been made since; so Accept and Cancel never decide on a 'can'
\* that is unset or older than newValue
C21_CanMatchesNewValue ==
  /\ [](\A j \in 1..nSettings :
          (settings[j].liveUpdate /\ settings[j].newValue # settings[j].currentValue)
            => settings[j].can # Indeterminate)
  /\ [][CanFollowsNewValue /\ CanDecidesOutcome]_vars

\* an edit of a liveUpdate setting was suspended by settingsDisplayOff with a
\* changed value the client had refused
C21_Witness ==
  /\ last.op = "settingsDisplayOff"
  /\ last.editing
  /\ last.dirty
  /\ currentSetting < nSettings
  /\ Sel.liveUpdate
  /\ Sel.newValue # Sel.currentValue
  /\ Sel.can = "false"

====
